---- MODULE Spec2Model ----
(***************************************************************************)
(* A model of PSocketClient (src/src/PSocketClient.ts): the readiness      *)
(* promise built by #init, the fetch and connect operations, the eviction  *)
(* timers and the inbound dispatcher #handleMessage with its chunk         *)
(* reassembly.  Every step between two suspension points of the            *)
(* JavaScript code (an await, an event, a timer) is one action.            *)
(***************************************************************************)
EXTENDS Integers, Sequences, FiniteSets, TLC

\* ------------------------------------------------------------------ bounds
\* Number of fetch/connect calls made on the client instance.
MaxCalls == 2
\* Longest request body and longest response body, in bytes.
MaxLen == 3
\* Largest usable payload size (maxPacketSize - META_BYTES) the server offers.
MaxUsable == 2

\* ------------------------------------------------------- program constants
\* static META_BYTES = 18: 16 bytes of id and 2 bytes of chunk index.
META_BYTES == 18
\* A request id is a v4 uuid without dashes: 32 hex digits, 16 bytes.
ID_HEX_LEN == 32
ID_BYTES == 16
\* The index of a chunk is written on two bytes: 65536 values.
INDEX_SPACE == 65536

Calls == 1..MaxCalls

\* The body of n bytes used in the model: byte k is k, so that a lost, repeated
\* or misplaced byte changes the sequence.
BodyOfLen(n) == [k \in 1..n |-> k % 256]
Bodies == {BodyOfLen(n) : n \in 0..MaxLen}

\* Request / response bodies that may be absent (no body at all).
NoBody == [present |-> FALSE, bytes |-> <<>>]
SomeBody(b) == [present |-> TRUE, bytes |-> b]
OptBodies == {NoBody} \cup {SomeBody(b) : b \in Bodies}
\* The answer of a server that has not answered yet.
Undecided == [present |-> FALSE, bytes |-> <<0>>]

\* options.url, and the value of a field that has not been assigned yet.
OptionsUrl == "/psocket/"
Undefined == "undefined"

\* The target URL of a call, and a URL the server may report after a redirect.
RequestedUrl == "https://api.example.com/"
RedirectedUrl == "https://api.example.com/moved"

\* ---------------------------------------------------------------- integers
Min(a, b) == IF a < b THEN a ELSE b
Max(a, b) == IF a > b THEN a ELSE b

\* Math.ceil(a / b) for a >= 0, b > 0.
CeilDiv(a, b) == (a + b - 1) \div b

\* ArrayBuffer.prototype.slice(from, to) / Uint8Array.prototype.slice(from, to),
\* 0-based, end exclusive, both clamped to the length.
Slice(s, from, to) ==
    LET lo == Min(from, Len(s))
        hi == Min(to, Len(s))
    IN  IF hi <= lo THEN <<>> ELSE [k \in 1..(hi - lo) |-> s[lo + k]]

\* ------------------------------------------------------------ frame codec
\* v4().replace(/-/g, ""): the id of call c, 32 hex digits (each 0..15).
Uuids == [c \in Calls |-> [k \in 1..ID_HEX_LEN |-> (7 * c + 3 * k) % 16]]
NewId(c) == Uuids[c]
\* An id no call of the model ever owns.
StrayId == [k \in 1..ID_HEX_LEN |-> (5 * k) % 16]

\* id.match(/.{1,2}/g).map(byte => parseInt(byte, 16)): pairs of digits to bytes.
EncodeId(hex) == [k \in 1..(Len(hex) \div 2) |-> 16 * hex[2 * k - 1] + hex[2 * k]]

\* Array.from(data.slice(0, 16)).map(b => b.toString(16).padStart(2, "0")).join("")
DecodeId(data) ==
    LET head == Slice(data, 0, ID_BYTES)
    IN  [k \in 1..(2 * Len(head)) |->
            IF k % 2 = 1 THEN head[(k + 1) \div 2] \div 16
                         ELSE head[k \div 2] % 16]

\* [(i >> 8) & 0xff, i & 0xff]
EncodeIndex(i) == << (i \div 256) % 256, i % 256 >>

\* ((data[16] & 0xff) << 8) | (data[17] & 0xff)
DecodeIndex(data) == (data[ID_BYTES + 1] % 256) * 256 + (data[ID_BYTES + 2] % 256)

\* One chunk frame: id bytes, index bytes, then the slice of the body.
ChunkFrame(id, i, body, usableBytes) ==
    EncodeId(id) \o EncodeIndex(i) \o Slice(body, i * usableBytes, (i + 1) * usableBytes)

\* A packet count rounded down: the last, shorter chunk of a body is not sent.
Packets_Floor(body, usableBytes) == Len(body) \div usableBytes

\* const packets = Math.ceil(body.byteLength / usableBytes)
Packets(body, usableBytes) == CeilDiv(Len(body), usableBytes)

\* The messages the send loop of fetch puts on the connection for a body.
ChunkMessages(id, body, usableBytes) ==
    [i \in 1..Packets(body, usableBytes) |->
        [text |-> FALSE, data |-> ChunkFrame(id, i - 1, body, usableBytes)]]

\* JSON.stringify(pRequest)
RequestMessage(id, body) ==
    [text |-> TRUE,
     data |-> [type |-> "request", id |-> id, url |-> RequestedUrl, method |-> IF body.present THEN "POST" ELSE "GET",
               hasBody |-> body.present,
               body |-> IF body.present THEN Len(body.bytes) ELSE 0]]

\* JSON.stringify(pConnect)
ConnectMessage(id) ==
    [text |-> TRUE,
     data |-> [type |-> "connect", id |-> id, url |-> RequestedUrl]]

\* ------------------------------------------------------ sparse JS arrays
\* An array slot is a hole (never assigned) or holds one Uint8Array.
Hole == <<>>
Filled(bytes) == <<bytes>>
IsHole(slot) == slot = Hole

\* new Array(n)
NewArray(n) == [k \in 1..n |-> Hole]

\* arr[index] = value, growing the array with holes when index >= length.
ArrayStore(arr, index, value) ==
    [k \in 1..Max(Len(arr), index + 1) |->
        IF k = index + 1 THEN Filled(value)
        ELSE IF k <= Len(arr) THEN arr[k] ELSE Hole]

\* arr.every(chunk => chunk !== undefined): every() visits only the slots that
\* exist, and a stored slot always holds a Uint8Array.
ArrayEvery(arr) == \A k \in 1..Len(arr) : IsHole(arr[k]) \/ arr[k] # Hole

\* arr.reduce((previous, current) => previous + current.byteLength, 0):
\* reduce() too skips the holes.
RECURSIVE TotalLength(_)
TotalLength(arr) ==
    IF arr = <<>> THEN 0
    ELSE (IF IsHole(Head(arr)) THEN 0 ELSE Len(Head(arr)[1])) + TotalLength(Tail(arr))

\* for (const chunk of arr) body.set(chunk, offset): the iterator visits every
\* index, and a hole reads as undefined, on which body.set throws a TypeError.
CopyThrows(arr) == \E k \in 1..Len(arr) : IsHole(arr[k])

RECURSIVE Concat(_)
Concat(arr) ==
    IF arr = <<>> THEN <<>> ELSE Head(arr)[1] \o Concat(Tail(arr))

\* ------------------------------------------------------------------ state
VARIABLES
    url,            \* this.url
    fetchMetaUrl,   \* the URL #fetchMeta handed to the global fetch()
    negotiations,   \* number of capability requests issued so far
    initPc,         \* where the executor of #init stands
    meta,           \* this.meta
    ws,             \* this.ws: "none", "connecting", "open" or "closed"
    wsUrl,          \* the URL the WebSocket was constructed with
    wsOpens,        \* number of WebSockets constructed so far
    ready,          \* this.ready: "pending", "resolved" or "rejected"
    pc,             \* per call: where its executor stands
    kind,           \* per call: "none", "fetch" or "connect"
    reqBody,        \* per call: the body given to fetch
    wire,           \* the arguments of this.ws.send, in order
    responseQueue,  \* this.#responseQueue: id -> entry
    connections,    \* the ids registered in this.#connections
    timer,          \* per call: the timeout armed at registration
    result,         \* per call: the promise fetch returned
    srvBody,        \* per call: the response body the server answers with
    dispatched,     \* the message the last step dispatched, if it dispatched one
    emitted         \* one iteration of a send loop, taken on its own

vars == << url, fetchMetaUrl, negotiations, initPc, meta, ws, wsUrl, wsOpens, ready,
           pc, kind, reqBody, wire, responseQueue, connections, timer, result,
           srvBody, dispatched, emitted >>

initVars == << url, fetchMetaUrl, negotiations, initPc, meta, ws, wsUrl, wsOpens, ready >>
callVars == << pc, kind, reqBody >>

\* The capabilities a server may answer the negotiation request with.  The largest
\* body of the model is one byte over maxBodySize.
NoMeta == [defined |-> FALSE, maxBodySize |-> 0, maxPacketSize |-> 0]
Metas == {[defined |-> TRUE, maxBodySize |-> MaxLen - 1, maxPacketSize |-> META_BYTES + u] :
            u \in 1..MaxUsable}

\* Capabilities whose maxPacketSize leaves no room for a payload.
BadMetas == {[defined |-> TRUE, maxBodySize |-> MaxLen - 1, maxPacketSize |-> META_BYTES - d] :
                d \in 0..1}

\* A promise that has not settled, and the values a fetch promise settles to.
Pending == [state |-> "pending"]
Resolved(response) == [state |-> "resolved", response |-> response]
Rejected(message) == [state |-> "rejected", message |-> message]

\* resolve(v) / reject(e) on a promise: only the first settlement counts.
Settle(promise, value) == IF promise = Pending THEN value ELSE promise

\* The description of a dispatched message: its type ("chunk" for a binary
\* message), the call that owns its id (0 for an id no call owns), its index,
\* and the message of the error the handler threw on it ("" when it returned).
NoMessage == [type |-> "none", call |-> 0, index |-> 0, thrown |-> ""]

\* No iteration of a send loop has been taken on its own.
NoChunk == [sent |-> FALSE, len |-> 0, usableBytes |-> 0, i |-> 0, data |-> <<>>]

\* The state after `new PSocketClient(options)`: the constructor calls #init
\* before it assigns this.url, and the executor of #init runs synchronously up to
\* the fetch(this.url) of #fetchMeta.
Init ==
    /\ url = OptionsUrl
    /\ fetchMetaUrl = Undefined
    /\ negotiations = 1
    /\ initPc = "fetchMeta"
    /\ meta = NoMeta
    /\ ws = "none"
    /\ wsUrl = Undefined
    /\ wsOpens = 0
    /\ ready = "pending"
    /\ pc = [c \in Calls |-> "idle"]
    /\ kind = [c \in Calls |-> "none"]
    /\ reqBody = [c \in Calls |-> NoBody]
    /\ wire = <<>>
    /\ responseQueue = <<>>
    /\ connections = {}
    /\ timer = [c \in Calls |-> "none"]
    /\ result = [c \in Calls |-> Pending]
    /\ srvBody = [c \in Calls |-> Undecided]
    /\ dispatched = NoMessage
    /\ emitted = NoChunk

\* ------------------------------------------------------------------ #init
\* The capability request answered with well-formed JSON: this.meta is set and
\* the WebSocket is constructed, with its three listeners.
InitConnect(m) ==
    /\ initPc = "fetchMeta"
    /\ meta' = m
    /\ ws' = "connecting"
    /\ wsUrl' = url
    /\ wsOpens' = wsOpens + 1
    /\ initPc' = "listening"
    /\ UNCHANGED << url, fetchMetaUrl, negotiations, ready, callVars, wire,
                    responseQueue, connections, timer, result, srvBody >>
    /\ dispatched' = NoMessage
    /\ UNCHANGED emitted

\* The capability request failed, or its body is not JSON: #fetchMeta throws
\* inside the async executor of #init, which neither resolves nor rejects.
InitFail ==
    /\ initPc = "fetchMeta"
    /\ initPc' = "threw"
    /\ UNCHANGED << url, fetchMetaUrl, negotiations, meta, ws, wsUrl, wsOpens, ready,
                    callVars, wire, responseQueue, connections, timer, result,
                    srvBody >>
    /\ dispatched' = NoMessage
    /\ UNCHANGED emitted

\* ws "open" listener: resolve().
WsOpen ==
    /\ ws = "connecting"
    /\ ws' = "open"
    /\ ready' = IF ready = "pending" THEN "resolved" ELSE ready
    /\ UNCHANGED << url, fetchMetaUrl, negotiations, initPc, meta, wsUrl, wsOpens,
                    callVars, wire, responseQueue, connections, timer, result,
                    srvBody >>
    /\ dispatched' = NoMessage
    /\ UNCHANGED emitted

\* ws "error" listener: reject(event).  The connection is gone afterwards.
WsError ==
    /\ ws \in {"connecting", "open"}
    /\ ws' = "closed"
    /\ ready' = IF ready = "pending" THEN "rejected" ELSE ready
    /\ UNCHANGED << url, fetchMetaUrl, negotiations, initPc, meta, wsUrl, wsOpens,
                    callVars, wire, responseQueue, connections, timer, result,
                    srvBody >>
    /\ dispatched' = NoMessage
    /\ UNCHANGED emitted

\* The connection closes: #init registers no "close" listener, nothing runs.
WsClose ==
    /\ ws = "open"
    /\ ws' = "closed"
    /\ UNCHANGED << url, fetchMetaUrl, negotiations, initPc, meta, wsUrl, wsOpens, ready,
                    callVars, wire, responseQueue, connections, timer, result,
                    srvBody >>
    /\ dispatched' = NoMessage
    /\ UNCHANGED emitted

\* ------------------------------------------------------------------ fetch
\* const usableBytes = this.meta!.maxPacketSize - PSocketClient.META_BYTES
UsableBytes == meta.maxPacketSize - META_BYTES

\* Math.ceil(body?.byteLength ?? 0 / usableBytes): the division binds tighter
\* than ??, so this is body.byteLength when there is a body and 0 / usableBytes
\* when there is none (-0 for a negative usableBytes, NaN for 0: see ArrayThrows).
ChunkSlots(body, usableBytes) ==
    IF body.present THEN Len(body.bytes)
    ELSE IF usableBytes > 0 THEN CeilDiv(0, usableBytes) ELSE 0

\* Math.ceil(body.byteLength / 0) is Infinity for a body that is not empty: the
\* send loop `for (let i = 0; i < packets; i++)` never ends.
LoopsForever(body, usableBytes) ==
    body.present /\ usableBytes = 0 /\ Len(body.bytes) > 0

\* Without a body and with usableBytes = 0 the length is Math.ceil(0 / 0) = NaN,
\* and new Array(NaN) throws a RangeError.
ArrayThrows(body, usableBytes) == ~body.present /\ usableBytes = 0

\* The chunk messages of the send loop when it ends: for usableBytes <= 0 the
\* packet count is NaN or not positive, and the loop body never runs.
LoopMessages(id, body, usableBytes) ==
    IF body.present /\ usableBytes > 0
    THEN ChunkMessages(id, body.bytes, usableBytes) ELSE <<>>

\* The entry fetch stores under pRequest.id.
NewEntry(c, body, usableBytes) ==
    [call |-> c,
     chunks |-> NewArray(ChunkSlots(body, usableBytes)),
     requestUrl |-> RequestedUrl,
     hasResponse |-> FALSE,
     response |-> [url |-> "", status |-> 0, statusText |-> "", headers |-> ""]]

\* obj[key] = value on a Record<string, ...>.
Put(table, key, value) ==
    [k \in (DOMAIN table) \cup {key} |-> IF k = key THEN value ELSE table[k]]

\* delete obj[key]
Delete(table, key) == [k \in (DOMAIN table) \ {key} |-> table[k]]

\* A fetch that negotiates and connects on its own while the client is not
\* connected, instead of awaiting the readiness the constructor started.
FetchCall_Reinit(c, body) ==
    /\ pc[c] = "idle"
    /\ \A d \in Calls : d < c => pc[d] # "idle"
    /\ pc' = [pc EXCEPT ![c] = "awaitReady"]
    /\ kind' = [kind EXCEPT ![c] = "fetch"]
    /\ reqBody' = [reqBody EXCEPT ![c] = body]
    /\ IF ws # "open"
       THEN /\ negotiations' = negotiations + 1
            /\ initPc' = "fetchMeta"
       ELSE UNCHANGED << negotiations, initPc >>
    /\ UNCHANGED << url, fetchMetaUrl, meta, ws, wsUrl, wsOpens, ready, wire,
                    responseQueue, connections, timer, result, srvBody >>
    /\ dispatched' = NoMessage
    /\ UNCHANGED emitted

\* fetch(input, init): the promise is created and its executor runs up to
\* `await this.ready`.  Calls are numbered in the order they are made.
FetchCall(c, body) ==
    /\ pc[c] = "idle"
    /\ \A d \in Calls : d < c => pc[d] # "idle"
    /\ pc' = [pc EXCEPT ![c] = "awaitReady"]
    /\ kind' = [kind EXCEPT ![c] = "fetch"]
    /\ reqBody' = [reqBody EXCEPT ![c] = body]
    /\ UNCHANGED << initVars, wire, responseQueue, connections, timer, result,
                    srvBody >>
    /\ dispatched' = NoMessage
    /\ UNCHANGED emitted

\* A fetch that sends the chunk frames of the body before the control frame.
SendAndRegister_ChunksFirst(c, body) ==
    LET id == NewId(c)
        chunks == IF body.present THEN ChunkMessages(id, body.bytes, UsableBytes)
                  ELSE <<>>
    IN  /\ wire' = (wire \o chunks) \o << RequestMessage(id, body) >>
        /\ responseQueue' = Put(responseQueue, id, NewEntry(c, body, UsableBytes))
        /\ timer' = [timer EXCEPT ![c] = "armed"]
        /\ pc' = [pc EXCEPT ![c] = "registered"]

\* this.ws.send(control frame), the send loop, and the registration of the
\* entry with its timer: one synchronous run.
SendAndRegister(c, body) ==
    LET id == NewId(c)
        chunks == LoopMessages(id, body, UsableBytes)
    IN  IF LoopsForever(body, UsableBytes)
        THEN \* the control frame, then chunk frames without end
             /\ wire' = Append(wire, RequestMessage(id, body))
             /\ pc' = [pc EXCEPT ![c] = "sendLoop"]
             /\ UNCHANGED << responseQueue, timer >>
        ELSE IF ArrayThrows(body, UsableBytes)
        THEN \* the RangeError is thrown inside the async executor
             /\ wire' = Append(wire, RequestMessage(id, body))
             /\ pc' = [pc EXCEPT ![c] = "threwRangeError"]
             /\ UNCHANGED << responseQueue, timer >>
        ELSE /\ wire' = (wire \o << RequestMessage(id, body) >>) \o chunks
             /\ responseQueue' = Put(responseQueue, id, NewEntry(c, body, UsableBytes))
             /\ timer' = [timer EXCEPT ![c] = "armed"]
             /\ pc' = [pc EXCEPT ![c] = "registered"]

\* Iteration i of the send loop of call c, taken on its own, for a body of len
\* bytes: the frame `new Uint8Array([...id, ...index, ...slice])` it sends.
SendLoopStep(c, len, usableBytes, i) ==
    /\ emitted = NoChunk
    /\ i < Packets(BodyOfLen(len), usableBytes)
    /\ emitted' = [sent |-> TRUE, len |-> len, usableBytes |-> usableBytes, i |-> i,
                   data |-> ChunkFrame(NewId(c), i, BodyOfLen(len), usableBytes)]
    /\ UNCHANGED << initVars, callVars, wire, responseQueue, connections, timer,
                    result, srvBody, dispatched >>

\* A send loop that never ends keeps the only thread: no callback, continuation
\* or call runs any more.
Hung == \E c \in Calls : pc[c] = "sendLoop"

\* The continuations of `await this.ready` run in the order in which the calls
\* reached the await.
NextAwaiting(c) == pc[c] = "awaitReady" /\ \A d \in Calls : d < c => pc[d] # "awaitReady"

\* `await this.ready` returns: the request is built; with a body the executor
\* suspends again on request.arrayBuffer(), without one it sends and registers.
FetchResume(c) ==
    /\ kind[c] = "fetch"
    /\ NextAwaiting(c)
    /\ ready = "resolved"
    /\ IF reqBody[c].present
       THEN /\ pc' = [pc EXCEPT ![c] = "awaitBody"]
            /\ UNCHANGED << wire, responseQueue, timer >>
       ELSE SendAndRegister(c, reqBody[c])
    /\ UNCHANGED << initVars, kind, reqBody, connections, result, srvBody >>
    /\ dispatched' = NoMessage
    /\ UNCHANGED emitted

\* `await this.ready` throws inside the async executor: the rejection of the
\* executor's own promise is lost, resolve and reject are never called.
AwaitReadyThrows(c) ==
    /\ NextAwaiting(c)
    /\ ready = "rejected"
    /\ pc' = [pc EXCEPT ![c] = "threwNotReady"]
    /\ UNCHANGED << initVars, kind, reqBody, wire, responseQueue, connections, timer,
                    result, srvBody >>
    /\ dispatched' = NoMessage
    /\ UNCHANGED emitted

\* request.arrayBuffer() returns: the size check, then the sends.
\* `throw new Error("Body too large.")` is thrown inside the async executor.
FetchBody(c) ==
    /\ pc[c] = "awaitBody"
    /\ IF Len(reqBody[c].bytes) > meta.maxBodySize
       THEN /\ pc' = [pc EXCEPT ![c] = "threwTooLarge"]
            /\ UNCHANGED << wire, responseQueue, timer >>
       ELSE SendAndRegister(c, reqBody[c])
    /\ UNCHANGED << initVars, kind, reqBody, connections, result, srvBody >>
    /\ dispatched' = NoMessage
    /\ UNCHANGED emitted

\* The timeout callback of the entry of call c.
Timeout(c) ==
    /\ timer[c] = "armed"
    /\ timer' = [timer EXCEPT ![c] = "fired"]
    /\ IF NewId(c) \in DOMAIN responseQueue
       THEN /\ responseQueue' = Delete(responseQueue, NewId(c))
            /\ result' = [result EXCEPT ![c] = Settle(@, Rejected("Request timed out."))]
       ELSE UNCHANGED << responseQueue, result >>
    /\ UNCHANGED << initVars, callVars, wire, connections, srvBody >>
    /\ dispatched' = NoMessage
    /\ UNCHANGED emitted

\* ---------------------------------------------------------------- connect
ConnectCall(c) ==
    /\ pc[c] = "idle"
    /\ \A d \in Calls : d < c => pc[d] # "idle"
    /\ pc' = [pc EXCEPT ![c] = "awaitReady"]
    /\ kind' = [kind EXCEPT ![c] = "connect"]
    /\ UNCHANGED << initVars, reqBody, wire, responseQueue, connections, timer, result,
                    srvBody >>
    /\ dispatched' = NoMessage
    /\ UNCHANGED emitted

\* `await this.ready` returns in connect: the connect frame is sent and the
\* continuation stored in this.#connections.
ConnectResume(c) ==
    /\ kind[c] = "connect"
    /\ NextAwaiting(c)
    /\ ready = "resolved"
    /\ wire' = Append(wire, ConnectMessage(NewId(c)))
    /\ connections' = connections \cup {NewId(c)}
    /\ pc' = [pc EXCEPT ![c] = "registered"]
    /\ UNCHANGED << initVars, kind, reqBody, responseQueue, timer, result, srvBody >>
    /\ dispatched' = NoMessage
    /\ UNCHANGED emitted

\* -------------------------------------------------------- inbound messages
\* A parsed control frame; the fields a frame type does not use are empty.
TextFrame(type, id) ==
    [type |-> type, id |-> id, url |-> "", status |-> 0, statusText |-> "",
     headers |-> "", hasBody |-> FALSE, body |-> 0, message |-> ""]

\* The metadata a response frame may carry: final URL, status, status text, headers.
Metadata ==
    { [url |-> RedirectedUrl, status |-> 404, statusText |-> "Not Found",
       headers |-> "h404"] }

ResponseFrame(id, md, body) ==
    [TextFrame("response", id) EXCEPT
        !.url = md.url, !.status = md.status, !.statusText = md.statusText,
        !.headers = md.headers, !.hasBody = body.present,
        !.body = IF body.present THEN Len(body.bytes) ELSE 0]

ErrorFrame(id) == [TextFrame("error", id) EXCEPT !.message = "Remote failure"]

\* The calls whose frames have been sent, so that the server knows their ids.
SentFetches == {c \in Calls : kind[c] = "fetch" /\ pc[c] = "registered"}
SentConnects == {c \in Calls : kind[c] = "connect" /\ pc[c] = "registered"}
KnownIds == {NewId(c) : c \in SentFetches \cup SentConnects} \cup {StrayId}

\* The bodies a server answers with: none, or one within maxBodySize.
Answers == {NoBody} \cup {SomeBody(BodyOfLen(n)) : n \in 0..(MaxLen - 1)}

\* The messages by which the server answers the request of call c with a body:
\* the response frame announcing it (text), and its chunk frames (binary), split
\* as fetch splits a body.  They arrive in any order and any number of times.
AnswerText(c, answer) == {ResponseFrame(NewId(c), md, answer) : md \in Metadata}

AnswerBinary(c, answer) ==
    {ChunkFrame(NewId(c), i, answer.bytes, UsableBytes) :
        i \in 0..(Packets(answer.bytes, UsableBytes) - 1)}

\* Error frames for the ids the server knows and for a stray id.
ErrorFrames == {ErrorFrame(id) : id \in KnownIds}

\* Tunnel frames for the connections the server knows; the client does not act
\* on them yet.
TunnelFrames ==
    {TextFrame(t, NewId(c)) : t \in {"open", "close", "message"}, c \in SentConnects}

\* A frame of a type the client does not know.
UnknownFrames == {TextFrame("ping", StrayId)}

\* A response frame and a chunk frame whose id no request owns.
StrayResponses == {ResponseFrame(StrayId, md, NoBody) : md \in Metadata}
StrayChunks == {ChunkFrame(StrayId, 0, <<9>>, 1)}

\* The call that owns an id, 0 when no call does.
CallOf(id) == IF \E c \in Calls : NewId(c) = id
              THEN CHOOSE c \in Calls : NewId(c) = id ELSE 0

\* -------------------------------------------------------- #handleMessage
\* new PResponse(url, {status, statusText, headers, body})
PResponse(u, md, hasBody, body) ==
    [url |-> u, status |-> md.status, statusText |-> md.statusText,
     headers |-> md.headers, hasBody |-> hasBody, body |-> body]

\* clearTimeout(request.timeout)
ClearTimeout(c) == [timer EXCEPT ![c] = IF @ = "armed" THEN "cleared" ELSE @]

\* A handler that completes at once only a response whose body field is absent,
\* and waits for chunks when the declared length is zero.
HandleResponse_StrictUndefined(message) ==
    /\ message.type = "response"
    /\ IF message.id \notin DOMAIN responseQueue
       THEN UNCHANGED << responseQueue, timer, result >>
       ELSE LET request == responseQueue[message.id]
                md == [url |-> message.url, status |-> message.status,
                       statusText |-> message.statusText, headers |-> message.headers]
            IN  /\ responseQueue' = [responseQueue EXCEPT
                        ![message.id].hasResponse = TRUE,
                        ![message.id].response = md]
                /\ IF ~message.hasBody
                   THEN /\ timer' = ClearTimeout(request.call)
                        /\ result' = [result EXCEPT ![request.call] =
                               Settle(@, Resolved(PResponse(message.url, md, FALSE, <<>>)))]
                   ELSE UNCHANGED << timer, result >>

\* case "response"
HandleResponse(message) ==
    /\ message.type = "response"
    /\ IF message.id \notin DOMAIN responseQueue
       THEN UNCHANGED << responseQueue, timer, result >>
       ELSE LET request == responseQueue[message.id]
                md == [url |-> message.url, status |-> message.status,
                       statusText |-> message.statusText, headers |-> message.headers]
            IN  /\ responseQueue' = [responseQueue EXCEPT
                        ![message.id].hasResponse = TRUE,
                        ![message.id].response = md]
                /\ IF ~message.hasBody \/ message.body = 0
                   THEN /\ timer' = ClearTimeout(request.call)
                        /\ result' = [result EXCEPT ![request.call] =
                               Settle(@, Resolved(PResponse(message.url, md, FALSE, <<>>)))]
                   ELSE UNCHANGED << timer, result >>

\* case "open", "close", "message": nothing is done yet.
HandleTunnel(message) ==
    /\ message.type \in {"open", "close", "message"}
    /\ UNCHANGED << responseQueue, timer, result >>

\* An error frame that fails every request of the table, whatever its id.
HandleError_Global(message) ==
    /\ message.type = "error"
    /\ responseQueue' = << >>
    /\ result' = [c \in Calls |->
            IF NewId(c) \in DOMAIN responseQueue
            THEN Settle(result[c], Rejected(message.message)) ELSE result[c]]
    /\ UNCHANGED timer

\* case "error": throw new Error(message.message)
HandleError(message) ==
    /\ message.type = "error"
    /\ UNCHANGED << responseQueue, timer, result >>

\* A frame of unknown type that is fatal: every request of the table fails.
HandleUnknown_Fatal(message) ==
    /\ message.type \notin {"response", "open", "close", "message", "error"}
    /\ responseQueue' = << >>
    /\ result' = [c \in Calls |->
            IF NewId(c) \in DOMAIN responseQueue
            THEN Settle(result[c], Rejected("Unknown message type.")) ELSE result[c]]
    /\ UNCHANGED timer

\* default: throw new Error("Unknown message type.")
HandleUnknown(message) ==
    /\ message.type \notin {"response", "open", "close", "message", "error"}
    /\ UNCHANGED << responseQueue, timer, result >>

\* The body rebuilt from a chunk array without holes: a Uint8Array of the summed
\* length, each chunk copied at the running offset.
Reassemble(chunks) == [k \in 1..TotalLength(chunks) |-> Concat(chunks)[k]]

\* The chunk array of an entry after `request.chunks[index] = data.slice(18)`.
StoreChunk(request, data) ==
    ArrayStore(request.chunks, DecodeIndex(data), Slice(data, META_BYTES, Len(data)))

\* The binary branch.
HandleChunk(data) ==
    LET id == DecodeId(data)
    IN  IF id \notin DOMAIN responseQueue
        THEN \* throw new Error("Matching request not found.")
             UNCHANGED << responseQueue, timer, result >>
        ELSE LET request == responseQueue[id]
                 chunks == StoreChunk(request, data)
             IN  /\ responseQueue' = [responseQueue EXCEPT ![id].chunks = chunks]
                 /\ IF ~ArrayEvery(chunks)
                    THEN UNCHANGED << timer, result >>
                    ELSE IF CopyThrows(chunks)
                    THEN \* body.set(undefined, offset) throws before clearTimeout
                         UNCHANGED << timer, result >>
                    ELSE IF ~request.hasResponse
                    THEN \* request.response!.status throws after clearTimeout
                         /\ timer' = ClearTimeout(request.call)
                         /\ UNCHANGED result
                    ELSE /\ timer' = ClearTimeout(request.call)
                         /\ result' = [result EXCEPT ![request.call] =
                                Settle(@, Resolved(PResponse(request.requestUrl,
                                    request.response, TRUE, Reassemble(chunks))))]

\* What #handleMessage throws on a message in the current state, "" when it
\* returns normally.  The handler is async: the error rejects a promise nobody
\* holds, no field of the client records it.
Thrown(text, data) ==
    IF text
    THEN IF data.type = "error" THEN data.message
         ELSE IF data.type \in {"response", "open", "close", "message"} THEN ""
         ELSE "Unknown message type."
    ELSE IF DecodeId(data) \notin DOMAIN responseQueue
         THEN "Matching request not found."
         ELSE LET request == responseQueue[DecodeId(data)]
                  chunks == StoreChunk(request, data)
              IN  IF ArrayEvery(chunks) /\ (CopyThrows(chunks) \/ ~request.hasResponse)
                  THEN "TypeError" ELSE ""

\* The description of a message and of its handling, kept in `dispatched`.
Describe(text, data) ==
    IF text
    THEN [type |-> data.type, call |-> CallOf(data.id), index |-> 0,
          thrown |-> Thrown(text, data)]
    ELSE [type |-> "chunk", call |-> CallOf(DecodeId(data)),
          index |-> DecodeIndex(data), thrown |-> Thrown(text, data)]

\* The "message" listener of the WebSocket.
HandleMessage(text, data) ==
    /\ ws = "open"
    /\ IF text
       THEN \/ HandleResponse(data)
            \/ HandleTunnel(data)
            \/ HandleError(data)
            \/ HandleUnknown(data)
       ELSE HandleChunk(data)
    /\ dispatched' = Describe(text, data)
    /\ UNCHANGED emitted
    /\ UNCHANGED << initVars, callVars, wire, connections >>

\* The server answers the request of call c: the first message fixes the body it
\* answers with, every later one belongs to the same answer.
Deliver(c, answer, text, data) ==
    /\ c \in SentFetches
    /\ srvBody[c] \in {Undecided, answer}
    /\ srvBody' = [srvBody EXCEPT ![c] = answer]
    /\ HandleMessage(text, data)

DeliverOther(text, data) ==
    /\ UNCHANGED srvBody
    /\ HandleMessage(text, data)

\* ---------------------------------------------------------- specification
\* The steps of the client and of the connection under it.
ClientStep(bodies) ==
    \/ \E m \in Metas : InitConnect(m)
    \/ InitFail
    \/ WsOpen
    \/ WsError
    \/ WsClose
    \/ \E c \in Calls, body \in bodies : FetchCall(c, body)
    \/ \E c \in Calls : FetchResume(c)
    \/ \E c \in Calls : AwaitReadyThrows(c)
    \/ \E c \in Calls : FetchBody(c)
    \/ \E c \in Calls : Timeout(c)
    \/ \E c \in Calls : ConnectCall(c)
    \/ \E c \in Calls : ConnectResume(c)

\* The messages the server delivers: the answers to the requests it has seen,
\* and the other text and binary messages of its menu.
ServerStep(answers, otherText, otherBinary) ==
    /\ ws = "open"
    /\ \/ \E c \in SentFetches :
            \E answer \in {a \in answers : srvBody[c] \in {Undecided, a}} :
                \/ \E m \in AnswerText(c, answer) : Deliver(c, answer, TRUE, m)
                \/ \E d \in AnswerBinary(c, answer) : Deliver(c, answer, FALSE, d)
       \/ \E m \in otherText : DeliverOther(TRUE, m)
       \/ \E d \in otherBinary : DeliverOther(FALSE, d)

\* The whole system: any request body, any answer, error, tunnel and unknown
\* frames.
Next ==
    \/ ClientStep(OptBodies)
    \/ ServerStep(Answers, ErrorFrames \cup TunnelFrames \cup UnknownFrames, {})

Spec == Init /\ [][Next]_vars

\* The calls alone, before and after readiness, with no message from the server.
NextCalls == ClientStep(OptBodies)

SpecCalls == Init /\ [][NextCalls]_vars

\* The dispatcher under requests without a body, a server whose packets carry
\* one byte, and answers with no body, an empty body or a body of two chunks.
SmallestMeta == CHOOSE m \in Metas : \A n \in Metas : m.maxPacketSize <= n.maxPacketSize
DispatchAnswers == {NoBody, SomeBody(BodyOfLen(0)), SomeBody(BodyOfLen(2))}

NextDispatch ==
    \/ InitConnect(SmallestMeta)
    \/ WsOpen
    \/ \E c \in Calls : FetchCall(c, NoBody)
    \/ \E c \in Calls : FetchResume(c)
    \/ \E c \in Calls : Timeout(c)
    \/ ServerStep(DispatchAnswers, StrayResponses, StrayChunks)

SpecDispatch == Init /\ [][NextDispatch]_vars

\* The dispatcher under every kind of frame: requests without a body, answers
\* of two chunks, and error, unknown and stray frames between them.
FrameAnswers == {SomeBody(BodyOfLen(2))}

NextFrames ==
    \/ InitConnect(SmallestMeta)
    \/ WsOpen
    \/ \E c \in Calls : FetchCall(c, NoBody)
    \/ \E c \in Calls : FetchResume(c)
    \/ ServerStep(FrameAnswers, ErrorFrames \cup UnknownFrames \cup StrayResponses,
                  StrayChunks)

SpecFrames == Init /\ [][NextFrames]_vars

\* The calls under any capabilities the server may answer with, those that
\* leave no room for a payload included.
NextMeta ==
    \/ \E m \in Metas \cup BadMetas : InitConnect(m)
    \/ WsOpen
    \/ \E c \in Calls, body \in OptBodies : ~Hung /\ FetchCall(c, body)
    \/ \E c \in Calls : ~Hung /\ FetchResume(c)
    \/ \E c \in Calls : ~Hung /\ FetchBody(c)
    \/ \E c \in Calls : ~Hung /\ Timeout(c)

SpecMeta == Init /\ [][NextMeta]_vars

\* The send loop alone, iteration by iteration: short bodies, and bodies of
\* about as many bytes as the index field has values, at their first
\* iterations, around index 256 and around the last value of the field.
LoopLengths == (1..MaxLen) \cup {INDEX_SPACE + d : d \in 0..MaxLen}
LoopIndices ==
    (0..MaxLen) \cup {255, 256} \cup {INDEX_SPACE - 1 + d : d \in 0..MaxLen}

NextCodec ==
    \E c \in Calls, len \in LoopLengths, u \in 1..MaxUsable, i \in LoopIndices :
        SendLoopStep(c, len, u, i)

SpecCodec == Init /\ [][NextCodec]_vars

\* ------------------------------------------------------------------ claims
InTable(c) == NewId(c) \in DOMAIN responseQueue
EntryOf(c) == responseQueue[NewId(c)]
Answered(c) == srvBody[c] # Undecided
AnswerPackets(c) == Packets(srvBody[c].bytes, UsableBytes)
FramesOf(c) ==
    {k \in 1..Len(wire) :
        IF wire[k].text THEN wire[k].data.id = NewId(c)
        ELSE DecodeId(wire[k].data) = NewId(c)}

\* C1: round trip.  A request completed through its chunk frames delivers a
\* body identical, byte for byte, to the body b the server split into those
\* frames, whatever the order in which they arrived.
C1_RoundTrip ==
    \A c \in Calls :
        (result[c].state = "resolved" /\ result[c].response.hasBody)
            => result[c].response.body = srvBody[c].bytes

\* C2: a request whose answer is carried by n > 0 chunks is completed only in a
\* step after which the chunks of all indices 0..n-1 are stored, and the body
\* delivered is the concatenation of these n payloads in index order.
C2_CompleteOnlyWithAllChunks ==
    [][\A c \in Calls :
        (result[c] = Pending /\ result'[c].state = "resolved"
            /\ result'[c].response.hasBody)
        => LET chunks == responseQueue'[NewId(c)].chunks
               n == Packets(srvBody'[c].bytes, UsableBytes)
           IN  /\ Len(chunks) >= n
               /\ \A k \in 1..n : ~IsHole(chunks[k])
               /\ result'[c].response.body = Concat(SubSeq(chunks, 1, n))]_vars

\* C3: a fetch whose body is longer than maxBodySize fails: once its size check
\* has run its promise is rejected with the body-too-large error, and none of
\* its frames is on the connection.
C3_TooLargeRejected ==
    \A c \in Calls :
        (kind[c] = "fetch" /\ reqBody[c].present /\ meta.defined
            /\ Len(reqBody[c].bytes) > meta.maxBodySize
            /\ pc[c] \in {"threwTooLarge", "registered"})
        => (result[c] = Rejected("Body too large.") /\ FramesOf(c) = {})

\* C4: an error frame whose id matches a pending request removes the entry and
\* rejects the promise with the message of the frame, in the step that
\* dispatches it.
C4_ErrorFrameRejects ==
    [][\A c \in Calls :
        (dispatched'.type = "error" /\ dispatched'.call = c
            /\ InTable(c) /\ result[c] = Pending)
        => (NewId(c) \notin DOMAIN responseQueue'
            /\ result'[c] = Rejected("Remote failure"))]_vars

\* The request of call c has received what completes it: a response frame that
\* declares no body, or the chunks of all the indices of its answer.
Completable(c) ==
    /\ InTable(c)
    /\ Answered(c)
    /\ IF ~srvBody[c].present \/ Len(srvBody[c].bytes) = 0
       THEN EntryOf(c).hasResponse
       ELSE /\ Len(EntryOf(c).chunks) >= AnswerPackets(c)
            /\ \A k \in 1..AnswerPackets(c) : ~IsHole(EntryOf(c).chunks[k])

\* C5: a registered request that has received neither a completing response
\* frame nor all its chunks is either still pending with its timer armed, or
\* rejected with the timeout error and removed from the table by its timer.
C5_TimeoutRejects ==
    \A c \in SentFetches :
        ~Completable(c)
        => \/ timer[c] = "armed" /\ result[c] = Pending /\ InTable(c)
           \/ timer[c] = "fired" /\ result[c] = Rejected("Request timed out.")
                /\ ~InTable(c)

\* C6: a response frame whose declared body length is absent or zero, matching
\* a pending request, completes the request in the step that dispatches it, with
\* the metadata of the frame and no body, before any chunk frame.
C6_NoBodyCompletesAtOnce ==
    [][\A c \in Calls :
        (dispatched'.type = "response" /\ dispatched'.call = c
            /\ InTable(c) /\ result[c] = Pending
            /\ (~srvBody'[c].present \/ Len(srvBody'[c].bytes) = 0))
        => \E md \in Metadata :
            result'[c] = Resolved(PResponse(md.url, md, FALSE, <<>>))]_vars

\* A response frame declaring a body of length zero has just completed call 1.
C6_Witness ==
    /\ dispatched.type = "response"
    /\ dispatched.call = 1
    /\ srvBody[1] = SomeBody(<<>>)
    /\ result[1].state = "resolved"
    /\ ~result[1].response.hasBody
    /\ \A k \in 1..Len(EntryOf(1).chunks) : IsHole(EntryOf(1).chunks[k])

\* C7: every entry of the table is non-terminal: the table never holds the
\* entry of a request whose promise has settled.
C7_TableHoldsNoSettled ==
    \A c \in Calls : InTable(c) => result[c] = Pending

\* C8: once the promise of a request has settled, a response frame or chunk
\* frame carrying its id is ignored: the dispatch changes neither the table
\* (entries, stored chunks, stored metadata) nor the result, and throws nothing.
C8_StaleFramesIgnored ==
    [][\A c \in Calls :
        (result[c] # Pending /\ dispatched'.call = c
            /\ dispatched'.type \in {"response", "chunk"})
        => (responseQueue' = responseQueue /\ result' = result
            /\ dispatched'.thrown = "")]_vars

\* C9: when the connection closes or errors after it was open, every request
\* then pending in the table is rejected and removed in that step.
C9_CloseTerminatesPending ==
    [][(ws = "open" /\ ws' = "closed")
        => \A c \in Calls :
            (InTable(c) /\ result[c] = Pending)
            => (result'[c].state = "rejected"
                /\ NewId(c) \notin DOMAIN responseQueue')]_vars

\* C10: whatever the number of calls and whenever they are made, the client
\* negotiates once and opens one connection; no call passes its await or sends
\* a frame before readiness has resolved, and once it has resolved the call
\* that waits first can proceed.
C10_SingleNegotiation ==
    /\ negotiations = 1
    /\ wsOpens <= 1
    /\ (ready # "pending" => wsOpens = 1)
    /\ \A c \in Calls :
        /\ (pc[c] \in {"awaitBody", "threwTooLarge", "registered"}) => ready = "resolved"
        /\ (FramesOf(c) # {}) => ready = "resolved"
        /\ (ready = "resolved" /\ NextAwaiting(c))
            => ENABLED (FetchResume(c) \/ ConnectResume(c))

\* Every call has sent its frames, after one negotiation and one connection.
C10_Witness ==
    /\ ready = "resolved"
    /\ negotiations = 1
    /\ wsOpens = 1
    /\ \A c \in Calls : pc[c] = "registered" /\ FramesOf(c) # {}
    /\ \E c \in Calls : kind[c] = "fetch"
    /\ \E c \in Calls : kind[c] = "connect"

\* C11: the capability request goes to options.url, the WebSocket is opened to
\* the same URL, and it is opened only once the capabilities are known.
C11_NegotiationUrl ==
    /\ fetchMetaUrl = OptionsUrl
    /\ (wsOpens > 0 => (wsUrl = fetchMetaUrl /\ meta.defined))

\* C12: when the capability request fails, or its body is not JSON, readiness
\* settles as failed.
C12_NegotiationFailureObservable ==
    initPc = "threw" => ready = "rejected"

\* C15: the response a caller receives carries the final URL, the status, the
\* status text and the headers of the response frame of its request, whether
\* it was completed by that frame or by reassembly.
C15_ResponseMetadata ==
    \A c \in Calls :
        result[c].state = "resolved"
        => \E md \in Metadata :
            /\ result[c].response.url = md.url
            /\ result[c].response.status = md.status
            /\ result[c].response.statusText = md.statusText
            /\ result[c].response.headers = md.headers

\* C20: the timer of a request is never disarmed while its promise is
\* unsettled, so that a registered request settles once its timer has fired.
C20_TimerArmedWhileUnsettled ==
    \A c \in Calls : timer[c] = "cleared" => result[c] # Pending

\* The chunk frames of call c on the connection, in the order they were sent,
\* and the payload of a chunk frame.
ChunkFramesOf(c) ==
    SelectSeq(wire, LAMBDA m : ~m.text /\ DecodeId(m.data) = NewId(c))
Payload(data) == [j \in 1..(Len(data) - META_BYTES) |-> data[META_BYTES + j]]

PositionsOf(c) ==
    SelectSeq([k \in 1..Len(wire) |-> k], LAMBDA k : k \in FramesOf(c))

KnownTypes == {"response", "open", "close", "message", "error"}

\* C13: the dispatch of a control frame of unknown type completes, rejects and
\* removes no request: the table, the timers and the results are unchanged, and
\* the connection stays open for the messages that follow.
C13_UnknownTypeHarmless ==
    [][(dispatched'.type \notin KnownTypes \cup {"chunk", "none"})
        => (responseQueue' = responseQueue /\ timer' = timer /\ result' = result
            /\ ws' = "open")]_vars

\* A frame of unknown type has been dispatched while a request that has its
\* response frame and one of its two chunks was pending.
C13_Witness ==
    /\ dispatched.type \notin KnownTypes \cup {"chunk", "none"}
    /\ dispatched.thrown = "Unknown message type."
    /\ \E c \in Calls :
        /\ InTable(c)
        /\ result[c] = Pending
        /\ timer[c] = "armed"
        /\ EntryOf(c).hasResponse

\* C19: the dispatch of a response, chunk or error frame naming an id leaves
\* the requests of all the other ids as they were: entry (chunk slots, stored
\* metadata), timer and result.
C19_OtherEntriesUntouched ==
    [][(dispatched'.type \in {"response", "chunk", "error"})
        => \A c \in Calls :
            (c # dispatched'.call)
            => /\ (NewId(c) \in DOMAIN responseQueue') = InTable(c)
               /\ (InTable(c) => responseQueue'[NewId(c)] = EntryOf(c))
               /\ timer'[c] = timer[c]
               /\ result'[c] = result[c]]_vars

\* An error frame naming the request of call 1 has been dispatched while the
\* request of call 2, holding its response metadata, was pending.
C19_Witness ==
    /\ dispatched.type = "error"
    /\ dispatched.call = 1
    /\ InTable(2)
    /\ EntryOf(2).hasResponse
    /\ result[2] = Pending
    /\ timer[2] = "armed"

\* C16: once readiness has resolved, maxPacketSize is greater than META_BYTES,
\* so that no fetch computes a usable payload size of zero or less and no send
\* loop runs without end.
C16_PacketSizeValidated ==
    ready = "resolved"
    => /\ meta.maxPacketSize > META_BYTES
       /\ \A c \in Calls : pc[c] \notin {"sendLoop", "threwRangeError"}

\* C17: the index field of the k-th chunk frame of a request decodes to k, so
\* that the fields of the frames of a request are pairwise distinct, however
\* many chunks the body needs.
C17_IndexNeverWraps ==
    emitted.sent => DecodeIndex(emitted.data) = emitted.i

====
